---- MODULE Spec2Model ----
(***************************************************************************)
(* Model of the two sequential orchestrators of the repository:            *)
(*   - beaker_runner.Runner   (name-convention index, retry suffixes)      *)
(*   - bipelines.Bipeline     (tag-scan index, description tags)           *)
(* together with the remote backend they reconcile against.  A behaviour   *)
(* is a sequence of orchestrator invocations (runs) with one run_hash,     *)
(* interleaved with the backend advancing its jobs and with the            *)
(* orchestrator process being killed.                                      *)
(***************************************************************************)
EXTENDS Integers, Sequences, FiniteSets, TLC

VARIABLES
    orch,               \* which program is invoked: "runner" or "bipeline"
    dry_run,            \* cfg.dry_run
    workspace,          \* cfg.workspace is set (Bipeline: dedup is enabled)
    state_dir,          \* cfg.state_dir is set
    commands,           \* cfg.commands, a sequence of command texts
    jobs,               \* the remote backend: sequence of job records
    pc,                 \* position of the orchestrator process
    run,                \* number of invocations started so far
    i,                  \* index (1-based) of the task being processed
    experiment_lookup,  \* Runner: name -> job id (in-memory index)
    workload_cache,     \* Bipeline: hash -> [id, status] (in-memory index)
    cur,                \* job id the process is tagging / polling (0: none)
    polls,              \* Bipeline._wait_for_experiment: polls counter
    last_status,        \* last status the wait loop reported ("None": none yet)
    listed,             \* the current run listed the backend and nothing was raised
    results,            \* results list of the current run
    log,                \* per task of the current run: how it was resolved
    hist,               \* summaries of the runs that ended
    written,            \* artifacts the current run wrote to state_dir
    fin,                \* inputs given to the code a specification of its own runs
    fout                \* what that code did with fin

vars == <<orch, dry_run, workspace, state_dir, commands, jobs, pc, run, i,
          experiment_lookup, workload_cache, cur, polls, last_status, listed,
          results, log, hist, written, fin, fout>>

----------------------------------------------------------------------------
(* Bounds of the model *)

MaxJobs == 2    \* jobs the backend holds
MaxRuns == 2    \* invocations of the orchestrator
MaxPolls == 4   \* non-terminal polls of one wait
MaxSuffix == 3  \* largest retry suffix in an index given to the name functions
MaxWaitPolls == 8   \* non-terminal polls of a wait observed on its own
MaxDescLen == 5     \* characters of a description given to the tagging code
MaxStrLen == 2      \* characters of a command text and of a run_hash

(* Program constants *)

retag_every == 4

----------------------------------------------------------------------------
(* Task identity *)

Commands == {"c1", "c2"}

\* hashlib.sha256(f"{command}|{run_hash}").hexdigest()[:12] for the one
\* run_hash of a behaviour: a fixed digest per command text, over the hex
\* alphabet the tag pattern reads.
task_hash(command) == IF command = "c1" THEN <<"a">> ELSE <<"b">>

Hashes == {task_hash(c) : c \in Commands}

----------------------------------------------------------------------------
(* Statuses *)

\* Backend status codes of a workload / its latest job.  "submitted": the
\* workload exists and has no job yet.  "unspecified": a code the status
\* maps do not list.
RawStatus == {"submitted", "queued", "unspecified", "running",
              "succeeded", "failed", "canceled"}

RawTerminal == {"succeeded", "failed", "canceled"}

\* The backend's own life cycle of a job.
RawNext(st) ==
    CASE st = "submitted"   -> {"queued", "unspecified", "canceled"}
      [] st = "queued"      -> {"running", "canceled"}
      [] st = "unspecified" -> {"running"}
      [] st = "running"     -> {"succeeded", "failed", "canceled"}
      [] OTHER              -> {}

\* experiment.py get_workload_status: no job yet -> "pending"; STATUS_MAP
\* knows running, succeeded, failed, canceled; anything else -> "unknown".
get_workload_status(job) ==
    CASE job.st = "submitted" -> "pending"
      [] job.st = "running"   -> "running"
      [] job.st = "succeeded" -> "completed"
      [] job.st = "failed"    -> "failed"
      [] job.st = "canceled"  -> "canceled"
      [] OTHER                -> "unknown"

\* bipeline.py WORKLOAD_STATUS_DISPLAY.get(status, "unknown")
WORKLOAD_STATUS_DISPLAY(st) ==
    CASE st \in {"submitted", "queued"} -> "pending"
      [] st = "running"                 -> "running"
      [] st = "succeeded"               -> "completed"
      [] st = "failed"                  -> "failed"
      [] st = "canceled"                -> "canceled"
      [] OTHER                          -> "unknown"

\* bipelines.experiment.get_experiment_status (not among the sources): the
\* live status of the experiment as one of the JobStatus strings.
get_experiment_status(job) == WORKLOAD_STATUS_DISPLAY(job.st)

\* Mutant: the wait loop also ends on "unknown"
RunnerTerminal_unknown(status) == status \in {"completed", "failed", "canceled", "unknown"}

\* experiment.py wait_for_completion: status in ("completed", "failed", "canceled")
RunnerTerminal(status) == status \in {"completed", "failed", "canceled"}

\* bipeline.py _wait_for_experiment: status in ("completed", "failed", "canceled")
\* Mutant: a running job ends the wait
BipelineTerminal_running(status) == status \in {"running", "completed", "failed", "canceled"}

\* Mutant: a canceled job does not end the wait
BipelineTerminal_nocancel(status) == status \in {"completed", "failed"}

BipelineTerminal(status) == status \in {"completed", "failed", "canceled"}

----------------------------------------------------------------------------
(* Experiment names of the Runner: {prefix}-{hash} (n = 0) and             *)
(* {prefix}-{hash}-{n} (n >= 1), for the one configured prefix.            *)

Name(h, n) == [h |-> h, n |-> n]
NoName == [h |-> <<>>, n |-> 0]      \* a job the Runner's convention does not name
None == [h |-> <<>>, n |-> -1]       \* Python None where a name is expected

RECURSIVE RetryWalk(_, _, _, _)
RetryWalk(lookup, h, n, latest) ==
    IF Name(h, n) \in DOMAIN lookup
    THEN RetryWalk(lookup, h, n + 1, Name(h, n))
    ELSE latest

find_matching_experiment(lookup, h) ==
    RetryWalk(lookup, h, 1, IF Name(h, 0) \in DOMAIN lookup THEN Name(h, 0) ELSE None)

RECURSIVE FirstFree(_, _, _)
FirstFree(lookup, h, n) ==
    IF Name(h, n) \in DOMAIN lookup THEN FirstFree(lookup, h, n + 1) ELSE Name(h, n)

\* Mutant: a retry reuses the un-suffixed name
next_experiment_name_base(lookup, h) == Name(h, 0)

\* Mutant: the suffix search starts at 2
next_experiment_name_from2(lookup, h) ==
    IF Name(h, 0) \notin DOMAIN lookup THEN Name(h, 0) ELSE FirstFree(lookup, h, 2)

\* Mutant: the suffix is the number of names the index holds for the identity
next_experiment_name_count(lookup, h) ==
    Name(h, Cardinality({nm \in DOMAIN lookup : nm.h = h}))

next_experiment_name(lookup, h) ==
    IF Name(h, 0) \notin DOMAIN lookup THEN Name(h, 0) ELSE FirstFree(lookup, h, 1)

----------------------------------------------------------------------------
(* Descriptions and the hash tag.  A description is a sequence of tokens:  *)
(* "T" is the literal "(bipelines:", "a" and "b" are hex characters, ")"   *)
(* closes a tag, " " is whitespace, "x" is any other character.            *)

Hex == {"a", "b"}

RECURSIVE HexRun(_, _)
\* length of the longest run of hex characters of d starting at position p
HexRun(d, p) == IF p <= Len(d) /\ d[p] \in Hex THEN 1 + HexRun(d, p + 1) ELSE 0

RECURSIVE SpaceRun(_, _)
SpaceRun(d, p) == IF p <= Len(d) /\ d[p] = " " THEN 1 + SpaceRun(d, p + 1) ELSE 0

\* HASH_TAG_RE = \(bipelines:([a-f0-9]+)\)\s*  tried at position p of d:
\* the position just past the match, or 0 when it does not match there.
HASH_TAG_RE(d, p) ==
    LET k == HexRun(d, p + 1)
        close == p + 1 + k
    IN IF p <= Len(d) /\ d[p] = "T" /\ k >= 1 /\ close <= Len(d) /\ d[close] = ")"
       THEN close + 1 + SpaceRun(d, close + 1)
       ELSE 0

NoHash == <<>>

\* Mutant: the pattern is searched anywhere in the description
_parse_hash_tag_search(description) ==
    LET hits == {p \in 1..Len(description) : HASH_TAG_RE(description, p) # 0}
    IN IF hits = {} THEN NoHash
       ELSE LET p == CHOOSE q \in hits : \A r \in hits : q <= r
            IN SubSeq(description, p + 1, p + HexRun(description, p + 1))

\* HASH_TAG_RE.match(description): anchored at the start; group(1) or None
_parse_hash_tag(description) ==
    IF HASH_TAG_RE(description, 1) # 0
    THEN SubSeq(description, 2, 1 + HexRun(description, 2))
    ELSE NoHash

\* HASH_TAG_RE.sub("", d, count=1): the leftmost match, wherever it is, removed
HASH_TAG_RE_sub(d) ==
    LET hits == {p \in 1..Len(d) : HASH_TAG_RE(d, p) # 0}
    IN IF hits = {} THEN d
       ELSE LET p == CHOOSE q \in hits : \A r \in hits : q <= r
            IN SubSeq(d, 1, p - 1) \o SubSeq(d, HASH_TAG_RE(d, p), Len(d))

RECURSIVE rstrip(_)
rstrip(d) == IF d # <<>> /\ d[Len(d)] = " " THEN rstrip(SubSeq(d, 1, Len(d) - 1)) ELSE d

\* Mutant: a description that already begins with a tag is left as it is
new_desc_keep(current_desc, h) ==
    IF _parse_hash_tag(current_desc) # NoHash THEN current_desc
    ELSE rstrip(<<"T">> \o h \o <<")", " ">> \o current_desc)

\* f"(bipelines:{task_hash}) {original}".rstrip()
new_desc(current_desc, h) ==
    rstrip(<<"T">> \o h \o <<")", " ">> \o HASH_TAG_RE_sub(current_desc))

\* Bipeline._tag_experiment on the backend: ok = FALSE is the get or the
\* update raising, which the method swallows.
_tag_experiment(js, id, h, ok) ==
    IF ok /\ new_desc(js[id].desc, h) # js[id].desc
    THEN [js EXCEPT ![id].desc = new_desc(js[id].desc, h)]
    ELSE js

----------------------------------------------------------------------------
(* The backend *)

\* A job: its name (Runner convention), description, status, who submitted
\* it ("pre": it was there before the first run, "orch": the orchestrator)
\* and, for "orch", the task identity it was submitted for.
Job(name, desc, st, by, forh) ==
    [name |-> name, desc |-> desc, st |-> st, by |-> by, forh |-> forh]

\* description of an experiment the Runner creates: cfg.description | hash
\* carries no tag; a command run by Bipeline creates one with its own text.
PlainDesc == <<"x">>

PreNames == {Name(<<"a">>, n) : n \in 0..1}
PreDescs == {<<"T", "a", ")", " ", "x">>}

RunnerPre == {Job(nm, PlainDesc, st, "pre", NoHash) : nm \in PreNames, st \in RawStatus}
BipelinePre == {Job(NoName, d, st, "pre", NoHash) : d \in PreDescs, st \in RawStatus}

\* Task lists: one task, two tasks of distinct identities, the same task twice
TaskLists == {<<"c1">>, <<"c1", "c2">>, <<"c1", "c1">>}

\* What the backend may hold before the first run: nothing, or one job
PreSeqs == {<<>>} \cup {<<j>> : j \in IF orch = "runner" THEN RunnerPre ELSE BipelinePre}

EmptyLookup == [n \in {} |-> 0]

NoInput == [lookup |-> EmptyLookup, h |-> NoHash]
NoOutput == [match |-> None, next |-> None]

Init ==
    /\ orch \in {"runner", "bipeline"}
    /\ dry_run \in BOOLEAN
    /\ workspace \in (IF orch = "runner" THEN {TRUE} ELSE BOOLEAN)
    /\ state_dir \in BOOLEAN
    /\ commands \in TaskLists
    /\ jobs \in PreSeqs
    /\ written = <<>>
    /\ pc = "idle"
    /\ run = 0
    /\ i = 0
    /\ experiment_lookup = EmptyLookup
    /\ workload_cache = EmptyLookup
    /\ cur = 0
    /\ polls = 0
    /\ last_status = "None"
    /\ listed = FALSE
    /\ results = <<>>
    /\ log = <<>>
    /\ hist = <<>>
    /\ fin = NoInput
    /\ fout = NoOutput

\* The backend advances one of its jobs.
BackendStep ==
    /\ \E j \in 1..Len(jobs) : \E st \in RawNext(jobs[j].st) :
          jobs' = [jobs EXCEPT ![j].st = st]
    /\ UNCHANGED <<written, orch, dry_run, workspace, state_dir, commands, pc, run, i, experiment_lookup,
                   workload_cache, cur, polls, last_status, listed, results,
                   log, hist, fin, fout>>

----------------------------------------------------------------------------
(* What the model records of a run *)

\* One entry of results: {"command": ..., "hash": ..., "status": ...}
Result(command, status) ==
    [command |-> command, hash |-> task_hash(command), status |-> status]

\* How one task was resolved: the index entry found (job id, 0: none), the
\* status the index entry carried (Bipeline), the status the live query
\* returned ("none": not queried, "error": it raised), what was decided, the
\* job submitted for the task (0: none) and what the wait loop returned.
Resolved(h, found, cached, observed, decision, launched) ==
    [h |-> h, found |-> found, cached |-> cached, observed |-> observed,
     decision |-> decision, launched |-> launched, final |-> "none"]

\* What is remembered of a run that ended: of one that returned, its
\* results and how each task was resolved; of one that was killed, the job
\* it was tagging or polling (0: none) and the identity of its task; of one
\* that raised, nothing.
RunSummary(outcome, res, lg) ==
    IF outcome = "done"
    THEN [outcome |-> outcome, listed |-> listed, results |-> res, log |-> lg,
          job |-> 0, h |-> NoHash]
    ELSE IF outcome = "idle" /\ cur # 0
    THEN [outcome |-> outcome, listed |-> FALSE, results |-> <<>>, log |-> <<>>,
          job |-> cur, h |-> task_hash(commands[i])]
    ELSE [outcome |-> outcome, listed |-> FALSE, results |-> <<>>, log |-> <<>>,
          job |-> 0, h |-> NoHash]

\* An artifact: the file written ("run": run-{run_hash}.json, "script":
\* {exp_name}.sh), the task list it holds, and whether the write went
\* through (ok = FALSE: OSError, which the writers swallow).
Artifact(file, tasks, ok) == [file |-> file, tasks |-> tasks, ok |-> ok]

\* Mutant: the summary lists the completed tasks only
Summary_completed(res, ok) ==
    Artifact("run", SelectSeq(res, LAMBDA t : t.status = "completed"), ok)

\* {"run_hash": cfg.run_hash, "tasks": results} written to run-{run_hash}.json
Summary(res, ok) == Artifact("run", res, ok)

\* _write_artifact / _write_test_artifact: nothing without a state_dir
_write_artifact(wr, data) == IF ~state_dir THEN wr ELSE Append(wr, data)

\* How a write can end when one is attempted: it goes through or raises
\* OSError; without a state_dir nothing is attempted.
WriteOutcomes(attempted) == IF attempted /\ state_dir THEN BOOLEAN ELSE {TRUE}

\* The end of run(): Bipeline writes the summary `if cfg.state_dir:`, the
\* Runner calls _write_test_artifact, which tests state_dir itself.
WriteSummary(wr, res, ok) ==
    IF orch = "bipeline" /\ ~state_dir THEN wr
    ELSE _write_artifact(wr, Summary(res, ok))

\* The process ends: run() returned ("done"), an exception left it
\* ("crashed") or it was killed ("idle").  Its memory is gone; what run()
\* returned stays visible until the next invocation.
EndRunW(outcome, res, lg, wr) ==
    /\ pc' = outcome
    /\ \E ok \in WriteOutcomes(outcome = "done") :
          written' = IF outcome = "done" THEN WriteSummary(wr, res, ok) ELSE <<>>
    /\ hist' = Append(hist, RunSummary(outcome, res, lg))
    /\ i' = 0
    /\ cur' = 0
    /\ polls' = 0
    /\ last_status' = "None"
    /\ listed' = FALSE
    /\ results' = IF outcome = "done" THEN res ELSE <<>>
    /\ log' = IF outcome = "done" THEN lg ELSE <<>>
    /\ experiment_lookup' = EmptyLookup
    /\ workload_cache' = EmptyLookup

EndRun(outcome, res, lg) == EndRunW(outcome, res, lg, written)

\* Mutant: the Runner breaks its loop as Bipeline does
HaltsOn_both(status) == status \in {"failed", "canceled"}

\* Mutant: the loop of run never breaks
HaltsOn_never(status) == FALSE

\* bipeline.py run: status in ("failed", "canceled") breaks the loop;
\* runner.py run has no such test.
HaltsOn(status) == orch = "bipeline" /\ status \in {"failed", "canceled"}

\* Mutant: a task whose job ended failed or canceled is processed again
ReturnW_retry(status, lg, lookup, wr) ==
    LET res == Append(results, Result(commands[i], status))
    IN IF status \in {"failed", "canceled"}
       THEN /\ pc' = "task"
            /\ written' = wr
            /\ i' = i
            /\ cur' = 0
            /\ polls' = 0
            /\ last_status' = "None"
            /\ results' = results
            /\ log' = lg
            /\ experiment_lookup' = lookup
            /\ UNCHANGED <<workload_cache, listed, hist>>
       ELSE IF i = Len(commands)
       THEN EndRunW("done", res, lg, wr)
       ELSE /\ pc' = "task"
            /\ written' = wr
            /\ i' = i + 1
            /\ cur' = 0
            /\ polls' = 0
            /\ last_status' = "None"
            /\ results' = res
            /\ log' = lg
            /\ experiment_lookup' = lookup
            /\ UNCHANGED <<workload_cache, listed, hist>>

\* _process_task returned status: run() appends the result and goes on to
\* the next task, or leaves the loop and returns.
\* wr: the artifacts written once _process_task has returned.
ReturnW(status, lg, lookup, wr) ==
    LET res == Append(results, Result(commands[i], status))
    IN IF HaltsOn(status) \/ i = Len(commands)
       THEN EndRunW("done", res, lg, wr)
       ELSE /\ pc' = "task"
            /\ written' = wr
            /\ i' = i + 1
            /\ cur' = 0
            /\ polls' = 0
            /\ last_status' = "None"
            /\ results' = res
            /\ log' = lg
            /\ experiment_lookup' = lookup
            /\ UNCHANGED <<workload_cache, listed, hist>>

Return(status, lg, lookup) == ReturnW(status, lg, lookup, written)

\* _process_task enters the wait loop on job id
EnterWait(id, lg, lookup, next_pc) ==
    /\ pc' = next_pc
    /\ cur' = id
    /\ polls' = 0
    /\ last_status' = "None"
    /\ log' = lg
    /\ experiment_lookup' = lookup
    /\ UNCHANGED <<i, workload_cache, listed, results, hist, written>>

SetFinal(lg, status) == [lg EXCEPT ![Len(lg)].final = status]

----------------------------------------------------------------------------
(* beaker_runner.Runner *)

\* list_recent_experiments: name -> workload over the listing (later
\* entries of the same name replace earlier ones)
list_recent_experiments(js) ==
    [nm \in {js[j].name : j \in 1..Len(js)} \ {NoName} |->
        CHOOSE j \in 1..Len(js) :
            /\ js[j].name = nm
            /\ \A k \in 1..Len(js) : js[k].name = nm => k <= j]

\* Runner.run up to the task loop.  A backend call raising leaves run().
Runner_run ==
    /\ orch = "runner"
    /\ pc \in {"idle", "done", "crashed"}
    /\ run < MaxRuns
    /\ run' = run + 1
    /\ \E ok \in BOOLEAN :
          IF ok
          THEN /\ experiment_lookup' = list_recent_experiments(jobs)
               /\ pc' = "task"
               /\ i' = 1
               /\ listed' = TRUE
               /\ results' = <<>>
               /\ log' = <<>>
               /\ written' = <<>>
               /\ UNCHANGED <<workload_cache, cur, polls, last_status, hist>>
          ELSE EndRun("crashed", <<>>, <<>>)
    /\ UNCHANGED <<orch, dry_run, workspace, state_dir, commands, jobs, fin, fout>>

\* Mutant: a completed match is not skipped
RunnerDecision_noskip(status) ==
    IF status = "running" THEN "hook" ELSE "launch"

\* Mutant: a running match is not hooked
RunnerDecision_nohook(status) ==
    IF status = "completed" THEN "skip" ELSE "launch"

\* runner.py _process_task: the branch taken on the status of the match
RunnerDecision(status) ==
    IF status = "completed" THEN "skip"
    ELSE IF status = "running" THEN "hook"
    ELSE "launch"

\* Runner._process_task up to its return or to the wait loop
Runner_process_task ==
    /\ orch = "runner"
    /\ pc = "task"
    /\ LET h == task_hash(commands[i])
           match_name == find_matching_experiment(experiment_lookup, h)
           wl == IF match_name # None THEN experiment_lookup[match_name] ELSE 0
           status == IF wl # 0 THEN get_workload_status(jobs[wl]) ELSE "none"
           decision == IF wl # 0 THEN RunnerDecision(status) ELSE "launch"
           exp_name == next_experiment_name(experiment_lookup, h)
           new == Len(jobs) + 1
       IN \E ok \in BOOLEAN :
            IF ~ok
            THEN \* get_workload_status or create_experiment raised
                 /\ wl # 0 \/ ~dry_run
                 /\ jobs' = jobs
                 /\ EndRun("crashed", results, log)
            ELSE CASE decision = "skip" ->
                        /\ jobs' = jobs
                        /\ Return("completed",
                                  Append(log, Resolved(h, wl, "none", status, "skip", 0)),
                                  experiment_lookup)
                   [] decision = "hook" ->
                        /\ jobs' = jobs
                        /\ EnterWait(wl,
                                     Append(log, Resolved(h, wl, "none", status, "hook", 0)),
                                     experiment_lookup, "poll")
                   [] decision = "launch" /\ dry_run ->
                        \* the script preview is written to {exp_name}.sh
                        /\ jobs' = jobs
                        /\ \E written_ok \in WriteOutcomes(TRUE) :
                              ReturnW("dry_run",
                                      Append(log, Resolved(h, wl, "none", status, "dry_run", 0)),
                                      experiment_lookup,
                                      _write_artifact(written, Artifact("script", <<>>, written_ok)))
                   [] OTHER ->
                        /\ Len(jobs) < MaxJobs
                        /\ jobs' = Append(jobs, Job(exp_name, PlainDesc, "submitted", "orch", h))
                        /\ EnterWait(new,
                                     Append(log, Resolved(h, wl, "none", status, "launch", new)),
                                     (exp_name :> new) @@ experiment_lookup, "poll")
    /\ UNCHANGED <<orch, dry_run, workspace, state_dir, commands, run, fin, fout>>

\* One iteration of experiment.py wait_for_completion
wait_for_completion ==
    /\ orch = "runner"
    /\ pc = "poll"
    /\ jobs' = jobs
    /\ \E ok \in BOOLEAN :
          IF ~ok
          THEN EndRun("crashed", results, log)
          ELSE LET status == get_workload_status(jobs[cur])
               IN IF RunnerTerminal(status)
                  THEN Return(status, SetFinal(log, status), experiment_lookup)
                  ELSE /\ status # last_status
                       /\ last_status' = status
                       /\ UNCHANGED <<written, pc, i, experiment_lookup, workload_cache, cur,
                                      polls, listed, results, log, hist>>
    /\ UNCHANGED <<orch, dry_run, workspace, state_dir, commands, run, fin, fout>>

----------------------------------------------------------------------------
(* bipelines.Bipeline *)

\* The listing the backend returns for name_or_description=HASH_TAG_SEARCH:
\* the ids of the jobs whose description contains "(bipelines:", oldest
\* first or newest first.
RECURSIVE Listing(_, _, _)
Listing(js, j, newest_first) ==
    IF j > Len(js) THEN <<>>
    ELSE LET rest == Listing(js, j + 1, newest_first)
         IN IF \E p \in 1..Len(js[j].desc) : js[j].desc[p] = "T"
            THEN IF newest_first THEN Append(rest, j) ELSE <<j>> \o rest
            ELSE rest

\* Mutant: a later workload with the same tag replaces the one stored
RECURSIVE _build_workload_cache_last(_, _, _)
_build_workload_cache_last(js, ids, cache) ==
    IF ids = <<>> THEN cache
    ELSE LET w == Head(ids)
             th == _parse_hash_tag(js[w].desc)
         IN _build_workload_cache_last(js, Tail(ids),
                IF th # NoHash
                THEN (th :> [id |-> w, status |-> js[w].st]) @@ cache
                ELSE cache)

\* The loop of _build_workload_cache over the listed workloads: the first
\* workload seen with a tag is kept, as the snapshot the listing gave.
RECURSIVE _build_workload_cache(_, _, _)
_build_workload_cache(js, ids, cache) ==
    IF ids = <<>> THEN cache
    ELSE LET w == Head(ids)
             th == _parse_hash_tag(js[w].desc)
         IN _build_workload_cache(js, Tail(ids),
                IF th # NoHash /\ th \notin DOMAIN cache
                THEN (th :> [id |-> w, status |-> js[w].st]) @@ cache
                ELSE cache)

\* Mutant: the backend is listed whatever the configuration
DedupEnabled_always(ws) == TRUE

\* `if cfg.workspace:` of Bipeline.run (and `if not self.config.workspace:
\* return` of _build_workload_cache)
DedupEnabled(ws) == ws

\* Bipeline.run up to the task loop.  The listing raises after `seen`
\* workloads (seen = all of them: it does not raise); the method swallows it
\* and keeps what the loop had stored.
Bipeline_run ==
    /\ orch = "bipeline"
    /\ pc \in {"idle", "done", "crashed"}
    /\ run < MaxRuns
    /\ run' = run + 1
    /\ IF DedupEnabled(workspace)
       THEN \E newest_first \in BOOLEAN :
               LET ids == Listing(jobs, 1, newest_first)
               IN \E seen \in 0..Len(ids) :
                     /\ workload_cache' =
                            _build_workload_cache(jobs, SubSeq(ids, 1, seen), EmptyLookup)
                     /\ listed' = (seen = Len(ids))
       ELSE \* `if cfg.workspace:` the backend is not listed
            /\ workload_cache' = EmptyLookup
            /\ listed' = FALSE
    /\ written' = <<>>
    /\ pc' = "task"
    /\ i' = 1
    /\ results' = <<>>
    /\ log' = <<>>
    /\ UNCHANGED <<orch, dry_run, workspace, state_dir, commands, jobs, experiment_lookup, cur, polls,
                   last_status, hist, fin, fout>>

\* Mutant: a live status of completed enters the wait loop
_check_existing_experiment_wait(display_status, status) ==
    IF display_status = "completed" THEN "skip"
    ELSE IF status = "error" THEN "rerun"
    ELSE IF status \in {"completed", "running"} THEN "hook"
    ELSE "rerun"

\* bipeline.py _check_existing_experiment: what it returns, from the status
\* of the cached workload and the live status ("error": the query raised).
\* "rerun" is its None.
_check_existing_experiment(display_status, status) ==
    IF display_status = "completed" THEN "skip"
    ELSE IF status = "error" THEN "rerun"
    ELSE IF status = "completed" THEN "skip"
    ELSE IF status = "running" THEN "hook"
    ELSE "rerun"

\* Mutant: the RuntimeError of the command is not caught
RunCommandRaises_uncaught(command_ok) == ~command_ok

\* _process_task wraps run_command_and_capture_experiment in try / except
\* RuntimeError and returns "failed": whether the error leaves the method
RunCommandRaises(command_ok) == FALSE

\* Bipeline._process_task up to its return, to the wait loop of a hooked
\* experiment, or to the tagging of the experiment its command created
Bipeline_process_task ==
    /\ orch = "bipeline"
    /\ pc = "task"
    /\ LET h == task_hash(commands[i])
           hit == h \in DOMAIN workload_cache
           id == IF hit THEN workload_cache[h].id ELSE 0
           display_status == IF hit THEN WORKLOAD_STATUS_DISPLAY(workload_cache[h].status)
                                    ELSE "none"
           new == Len(jobs) + 1
       IN \E query_ok, command_ok \in BOOLEAN :
            LET status == IF ~hit \/ display_status = "completed" THEN "none"
                          ELSE IF query_ok THEN get_experiment_status(jobs[id])
                          ELSE "error"
                decision == IF hit THEN _check_existing_experiment(display_status, status)
                            ELSE "rerun"
            IN CASE decision = "skip" ->
                        /\ jobs' = jobs
                        /\ Return("completed",
                                  Append(log, Resolved(h, id, display_status, status, "skip", 0)),
                                  experiment_lookup)
                 [] decision = "hook" ->
                        /\ jobs' = jobs
                        /\ EnterWait(id,
                                     Append(log, Resolved(h, id, display_status, status, "hook", 0)),
                                     experiment_lookup, "poll")
                 [] decision = "rerun" /\ dry_run ->
                        /\ jobs' = jobs
                        /\ Return("dry_run",
                                  Append(log, Resolved(h, id, display_status, status, "dry_run", 0)),
                                  experiment_lookup)
                 [] decision = "rerun" /\ ~dry_run /\ ~command_ok ->
                        \* run_command_and_capture_experiment raised RuntimeError
                        /\ jobs' = jobs
                        /\ IF RunCommandRaises(command_ok)
                           THEN EndRun("crashed", results, log)
                           ELSE Return("failed",
                                       Append(log, Resolved(h, id, display_status, status,
                                                            "error", 0)),
                                       experiment_lookup)
                 [] OTHER ->
                        \* the command submitted an experiment and printed its locator
                        /\ Len(jobs) < MaxJobs
                        /\ jobs' = Append(jobs, Job(NoName, PlainDesc, "submitted", "orch", h))
                        /\ EnterWait(new,
                                     Append(log, Resolved(h, id, display_status, status, "launch", new)),
                                     experiment_lookup, "tag")
    /\ UNCHANGED <<orch, dry_run, workspace, state_dir, commands, run, fin, fout>>

\* bipeline.py _process_task: self._tag_experiment(exp_id, task_hash), then
\* the wait loop starts
Bipeline_tag_launched ==
    /\ orch = "bipeline"
    /\ pc = "tag"
    /\ \E ok \in BOOLEAN : jobs' = _tag_experiment(jobs, cur, task_hash(commands[i]), ok)
    /\ pc' = "poll"
    /\ UNCHANGED <<written, orch, dry_run, workspace, state_dir, commands, run, i, experiment_lookup, workload_cache,
                   cur, polls, last_status, listed, results, log, hist, fin, fout>>

\* One iteration of Bipeline._wait_for_experiment
_wait_for_experiment ==
    /\ orch = "bipeline"
    /\ pc = "poll"
    /\ \E query_ok, tag_ok \in BOOLEAN :
          IF ~query_ok
          THEN \* get_experiment_status raised: nothing in run() catches it
               /\ jobs' = jobs
               /\ EndRun("crashed", results, log)
          ELSE LET status == get_experiment_status(jobs[cur])
                   h == task_hash(commands[i])
               IN IF BipelineTerminal(status)
                  THEN /\ jobs' = _tag_experiment(jobs, cur, h, tag_ok)
                       /\ Return(status, SetFinal(log, status), experiment_lookup)
                  ELSE /\ polls < MaxPolls
                       /\ polls' = polls + 1
                       /\ last_status' = status
                       /\ jobs' = IF polls' % retag_every = 0
                                  THEN _tag_experiment(jobs, cur, h, tag_ok)
                                  ELSE jobs
                       /\ UNCHANGED <<written, pc, i, experiment_lookup, workload_cache, cur,
                                      listed, results, log, hist>>
    /\ UNCHANGED <<orch, dry_run, workspace, state_dir, commands, run, fin, fout>>

\* The orchestrator process is killed (SIGINT/kill); remote jobs keep running.
Kill ==
    /\ pc \in {"task", "tag", "poll"}
    /\ EndRun("idle", results, log)
    /\ UNCHANGED <<orch, dry_run, workspace, state_dir, commands, jobs, run, fin, fout>>

Next ==
    \/ BackendStep
    \/ Runner_run
    \/ Runner_process_task
    \/ wait_for_completion
    \/ Bipeline_run
    \/ Bipeline_process_task
    \/ Bipeline_tag_launched
    \/ _wait_for_experiment
    \/ Kill

Spec == Init /\ [][Next]_vars

----------------------------------------------------------------------------
(* The name functions on their own: every index over the names of two     *)
(* identities with suffixes up to MaxSuffix, and an identity to resolve.    *)

AllNames == {Name(h, n) : h \in Hashes, n \in 0..MaxSuffix}

InitNames ==
    /\ orch = "runner"
    /\ dry_run = FALSE
    /\ workspace = TRUE
    /\ state_dir = FALSE
    /\ written = <<>>
    /\ commands = <<"c1">>
    /\ jobs = <<>>
    /\ pc = "names"
    /\ run = 0
    /\ i = 0
    /\ experiment_lookup = EmptyLookup
    /\ workload_cache = EmptyLookup
    /\ cur = 0
    /\ polls = 0
    /\ last_status = "None"
    /\ listed = FALSE
    /\ results = <<>>
    /\ log = <<>>
    /\ hist = <<>>
    /\ fin \in {[lookup |-> [nm \in S |-> 1], h |-> h] : S \in SUBSET AllNames, h \in Hashes}
    /\ fout = NoOutput

ResolveNames ==
    /\ pc = "names"
    /\ pc' = "named"
    /\ fout' = [match |-> find_matching_experiment(fin.lookup, fin.h),
                next |-> next_experiment_name(fin.lookup, fin.h)]
    /\ UNCHANGED <<written, orch, dry_run, workspace, state_dir, commands, jobs, run, i, experiment_lookup,
                   workload_cache, cur, polls, last_status, listed, results, log,
                   hist, fin>>

SpecNames == InitNames /\ [][ResolveNames]_vars

----------------------------------------------------------------------------
(* The two wait loops on their own: one wait on one job, every poll
   recorded.  fin holds what the loop was given (the statuses polled,
   whether a tagging call raised), fout what it did (the statuses printed,
   the tagging calls, the status returned, what aborted it). *)

\* `if status != last_status:` of both loops
Reports_always(status, last) == TRUE

Reports(status, last) == status # last

\* `if polls % retag_every == 0:` of _wait_for_experiment
Retags_offset(p) == p % retag_every = 1

Retags(p) == p % retag_every = 0

\* _tag_experiment wraps its body in try / except Exception: whether the
\* get or the update raising (ok = FALSE) leaves the method as an exception
TagRaises_uncaught(ok) == ~ok

TagRaises(ok) == FALSE

NoWaitInput == [polled |-> <<>>, tag_failed |-> FALSE]
NoWaitOutput == [reported |-> <<>>, tagged |-> <<>>, returned |-> "None", aborted |-> "none"]

\* a tagging call: after how many non-terminal polls, and whether it is
\* the one made on the terminal observation
TagCall(after, terminal) == [after |-> after, terminal |-> terminal]

\* The state right after a launch: the Runner has created the experiment
\* and stored it in its lookup, Bipeline has run the command and made the
\* first tagging call (which wrote the tag or raised).
InitWait ==
    /\ orch \in {"runner", "bipeline"}
    /\ dry_run = FALSE
    /\ workspace = TRUE
    /\ state_dir = FALSE
    /\ written = <<>>
    /\ commands = <<"c1">>
    /\ jobs \in {<<Job(IF orch = "runner" THEN Name(task_hash("c1"), 0) ELSE NoName,
                       d, "submitted", "orch", task_hash("c1"))>> :
                   d \in IF orch = "runner" THEN {PlainDesc}
                         ELSE {PlainDesc, new_desc(PlainDesc, task_hash("c1"))}}
    /\ pc = "poll"
    /\ run = 1
    /\ i = 1
    /\ experiment_lookup = IF orch = "runner"
                           THEN (Name(task_hash("c1"), 0) :> 1) @@ EmptyLookup
                           ELSE EmptyLookup
    /\ workload_cache = EmptyLookup
    /\ cur = 1
    /\ polls = 0
    /\ last_status = "None"
    /\ listed = TRUE
    /\ results = <<>>
    /\ log = <<Resolved(task_hash("c1"), 0, "none", "none", "launch", 1)>>
    /\ hist = <<>>
    /\ fin = NoWaitInput
    /\ fout = NoWaitOutput

\* One iteration of experiment.py wait_for_completion, recorded
wait_for_completion_loop ==
    /\ orch = "runner"
    /\ pc = "poll"
    /\ jobs' = jobs
    /\ \E ok \in BOOLEAN :
          IF ~ok
          THEN /\ EndRun("crashed", results, log)
               /\ fin' = fin
               /\ fout' = [fout EXCEPT !.aborted = "query"]
          ELSE LET status == get_workload_status(jobs[cur])
                   printed == IF Reports(status, last_status)
                              THEN Append(fout.reported, status) ELSE fout.reported
               IN /\ fin' = [fin EXCEPT !.polled = Append(@, status)]
                  /\ IF RunnerTerminal(status)
                     THEN /\ Return(status, SetFinal(log, status), experiment_lookup)
                          /\ fout' = [fout EXCEPT !.reported = printed, !.returned = status]
                     ELSE /\ Len(fin.polled) < MaxWaitPolls
                          /\ last_status' = status
                          /\ fout' = [fout EXCEPT !.reported = printed]
                          /\ UNCHANGED <<written, pc, i, experiment_lookup, workload_cache, cur,
                                         polls, listed, results, log, hist>>
    /\ UNCHANGED <<orch, dry_run, workspace, state_dir, commands, run>>

\* One iteration of Bipeline._wait_for_experiment, recorded
_wait_for_experiment_loop ==
    /\ orch = "bipeline"
    /\ pc = "poll"
    /\ \E query_ok, tag_ok \in BOOLEAN :
          IF ~query_ok
          THEN /\ jobs' = jobs
               /\ EndRun("crashed", results, log)
               /\ fin' = fin
               /\ fout' = [fout EXCEPT !.aborted = "query"]
          ELSE LET status == get_experiment_status(jobs[cur])
                   h == task_hash(commands[i])
                   printed == IF Reports(status, last_status)
                              THEN Append(fout.reported, status) ELSE fout.reported
                   tags == BipelineTerminal(status) \/ Retags(polls + 1)
                   called == IF tags
                             THEN Append(fout.tagged,
                                         IF BipelineTerminal(status)
                                         THEN TagCall(polls, TRUE)
                                         ELSE TagCall(polls + 1, FALSE))
                             ELSE fout.tagged
               IN /\ fin' = [polled |-> Append(fin.polled, status),
                             tag_failed |-> fin.tag_failed \/ (tags /\ ~tag_ok)]
                  /\ jobs' = IF tags THEN _tag_experiment(jobs, cur, h, tag_ok) ELSE jobs
                  /\ IF tags /\ TagRaises(tag_ok)
                     THEN /\ EndRun("crashed", results, log)
                          /\ fout' = [fout EXCEPT !.reported = printed, !.tagged = called,
                                                  !.aborted = "tag"]
                     ELSE IF BipelineTerminal(status)
                     THEN /\ Return(status, SetFinal(log, status), experiment_lookup)
                          /\ fout' = [fout EXCEPT !.reported = printed, !.tagged = called,
                                                  !.returned = status]
                     ELSE /\ polls < MaxWaitPolls
                          /\ polls' = polls + 1
                          /\ last_status' = status
                          /\ fout' = [fout EXCEPT !.reported = printed, !.tagged = called]
                          /\ UNCHANGED <<written, pc, i, experiment_lookup, workload_cache, cur,
                                         listed, results, log, hist>>
    /\ UNCHANGED <<orch, dry_run, workspace, state_dir, commands, run>>

\* the backend advances the job while the loop sleeps
WaitBackendStep == pc = "poll" /\ BackendStep

NextWait ==
    \/ WaitBackendStep
    \/ wait_for_completion_loop
    \/ _wait_for_experiment_loop

SpecWait == InitWait /\ [][NextWait]_vars

----------------------------------------------------------------------------
(* The tagging code on its own: one job with an arbitrary description is
   indexed by _build_workload_cache, then tagged twice for the identity of
   the task.  fin holds the description the job had, fout what each
   tagging call did. *)

\* what a description is made of: "T" is the text "(bipelines:", "a" and
\* "b" are hex digits, " " is whitespace, "x" any other character
Chars == {"T", "a", "b", ")", " ", "x"}

Descs == UNION {[1..n -> Chars] : n \in 0..MaxDescLen}

\* `if new_desc != current_desc:` of _tag_experiment: update is called
Updates(current_desc, h) == new_desc(current_desc, h) # current_desc

NoTagOutput == [ok |-> <<>>, updated |-> <<>>, desc |-> <<>>]

InitTag ==
    /\ orch = "bipeline"
    /\ dry_run = FALSE
    /\ workspace = TRUE
    /\ state_dir = FALSE
    /\ written = <<>>
    /\ commands \in {<<"c1">>, <<"c2">>}
    /\ fin \in {[desc |-> d] : d \in Descs}
    /\ jobs = <<Job(NoName, fin.desc, "running", "pre", NoHash)>>
    /\ pc = "listing"
    /\ run = 1
    /\ i = 1
    /\ experiment_lookup = EmptyLookup
    /\ workload_cache = EmptyLookup
    /\ cur = 1
    /\ polls = 0
    /\ last_status = "None"
    /\ listed = FALSE
    /\ results = <<>>
    /\ log = <<>>
    /\ hist = <<>>
    /\ fout = NoTagOutput

\* Bipeline._build_workload_cache over the listing of the backend
BuildCache ==
    /\ pc = "listing"
    /\ pc' = "tagging"
    /\ workload_cache' = _build_workload_cache(jobs, Listing(jobs, 1, FALSE), EmptyLookup)
    /\ listed' = TRUE
    /\ UNCHANGED <<written, orch, dry_run, workspace, state_dir, commands, jobs, run, i, experiment_lookup, cur,
                   polls, last_status, results, log, hist, fin, fout>>

\* One call of Bipeline._tag_experiment(cur, task_hash); at most two calls
TagOnce ==
    /\ pc = "tagging"
    /\ Len(fout.ok) < 2
    /\ \E ok \in BOOLEAN :
          LET h == task_hash(commands[i])
          IN /\ jobs' = _tag_experiment(jobs, cur, h, ok)
             /\ fout' = [ok |-> Append(fout.ok, ok),
                         updated |-> Append(fout.updated, ok /\ Updates(jobs[cur].desc, h)),
                         desc |-> Append(fout.desc, jobs'[cur].desc)]
    /\ UNCHANGED <<written, orch, dry_run, workspace, state_dir, commands, pc, run, i, experiment_lookup,
                   workload_cache, cur, polls, last_status, listed, results, log,
                   hist, fin>>

NextTag == BuildCache \/ TagOnce

SpecTag == InitTag /\ [][NextTag]_vars

\* The tagging code followed by the next run: once the job has been
\* tagged, a later invocation lists the backend and builds its index anew.
NextBuildCache ==
    /\ pc = "tagging"
    /\ Len(fout.ok) >= 1
    /\ pc' = "relisted"
    /\ run' = run + 1
    /\ workload_cache' = _build_workload_cache(jobs, Listing(jobs, 1, FALSE), EmptyLookup)
    /\ UNCHANGED <<written, orch, dry_run, workspace, state_dir, commands, jobs, i,
                   experiment_lookup, cur, polls, last_status, listed, results, log,
                   hist, fin, fout>>

NextRoundTrip == BuildCache \/ TagOnce \/ NextBuildCache

SpecRoundTrip == InitTag /\ [][NextRoundTrip]_vars

----------------------------------------------------------------------------
(* Task identity on its own: the two task_hash methods applied to two
   tasks.  fin holds the two tasks with their configurations, fout the
   identities computed. *)

\* what a command text and a run_hash are made of: "|" is the separator
\* the hashed string uses, "c" any other character
StrChars == {"c", "|"}

Strs == UNION {[1..n -> StrChars] : n \in 0..MaxStrLen}

\* a command text is not empty; a run_hash may be (its default is "")
CommandTexts == Strs \ {<<>>}

\* hashlib.sha256(content.encode()).hexdigest()[:12]: a digest that two
\* strings share only when they are the same string (collisions of the
\* truncated SHA-256 are not modelled)
sha256_12(content) == [sha256 |-> content]

\* f"{command}|{run_hash}"
Content(command, run_hash) == command \o <<"|">> \o run_hash

\* Mutant: the lib of the command enters the hashed string
BipelineConfig_task_hash_lib(self, cmd) ==
    sha256_12(Content(cmd.command \o cmd.lib, self.run_hash))

\* bipelines/config.py BipelineConfig.task_hash(cmd)
BipelineConfig_task_hash(self, cmd) == sha256_12(Content(cmd.command, self.run_hash))

\* beaker_runner/config.py RunnerConfig.task_hash(command)
RunnerConfig_task_hash(self, command) == sha256_12(Content(command, self.run_hash))

\* A task as one process sees it: the orchestrator, its configuration, the
\* command and its position in the list
Task(o, run_hash, prefix, command, lib, raw, index) ==
    [orch |-> o,
     self |-> [run_hash |-> run_hash, experiment_prefix |-> prefix],
     cmd |-> [command |-> command, lib |-> lib, raw |-> raw],
     index |-> index]

\* the first task: either orchestrator, no lib, first in the list
FirstTasks ==
    {Task(o, s, <<"p">>, c, <<>>, FALSE, 1) :
        o \in {"runner", "bipeline"}, s \in Strs, c \in CommandTexts}

\* the second task: the Runner's differ in prefix and position, Bipeline's
\* in lib, raw flag and position
SecondTasks ==
    {Task("runner", s, p, c, <<>>, FALSE, n) :
        s \in Strs, c \in CommandTexts, p \in {<<"p">>, <<"q">>}, n \in 1..2}
    \cup {Task("bipeline", s, <<"p">>, c, l, r, n) :
            s \in Strs, c \in CommandTexts, l \in {<<>>, <<"c">>}, r \in BOOLEAN, n \in 1..2}

cfg_task_hash(t) ==
    IF t.orch = "runner" THEN RunnerConfig_task_hash(t.self, t.cmd.command)
    ELSE BipelineConfig_task_hash(t.self, t.cmd)

NoHashOutput == [h1 |-> NoHash, h2 |-> NoHash]

InitHash ==
    /\ orch = "bipeline"
    /\ dry_run = FALSE
    /\ workspace = TRUE
    /\ state_dir = FALSE
    /\ written = <<>>
    /\ commands = <<"c1">>
    /\ jobs = <<>>
    /\ pc = "hash"
    /\ run = 0
    /\ i = 0
    /\ experiment_lookup = EmptyLookup
    /\ workload_cache = EmptyLookup
    /\ cur = 0
    /\ polls = 0
    /\ last_status = "None"
    /\ listed = FALSE
    /\ results = <<>>
    /\ log = <<>>
    /\ hist = <<>>
    /\ fin \in {[t1 |-> a, t2 |-> b] : a \in FirstTasks, b \in SecondTasks}
    /\ fout = NoHashOutput

\* each process computes cfg.task_hash(cmd) for its task
ComputeHashes ==
    /\ pc = "hash"
    /\ pc' = "hashed"
    /\ fout' = [h1 |-> cfg_task_hash(fin.t1), h2 |-> cfg_task_hash(fin.t2)]
    /\ UNCHANGED <<written, orch, dry_run, workspace, state_dir, commands, jobs, run,
                   i, experiment_lookup, workload_cache, cur, polls, last_status,
                   listed, results, log, hist, fin>>

SpecHash == InitHash /\ [][ComputeHashes]_vars

----------------------------------------------------------------------------
(* The tag-scan index on its own: a backend that already holds several
   workloads, some with the same tag, is listed in one of the orders the
   backend may use, and the one run that follows resolves its tasks against
   the index.  fin holds the listing as the loop of _build_workload_cache
   received it. *)

\* descriptions of the workloads the backend holds: tagged for the first
\* identity, tagged for the second, a marker after other text, no marker
IndexDescs == {<<"T", "a", ")", " ", "x">>, <<"T", "b", ")">>,
               <<"x", "T", "a", ")">>, PlainDesc}

IndexStatuses == {"running", "succeeded", "failed"}

IndexJobs == {Job(NoName, d, st, "pre", NoHash) : d \in IndexDescs, st \in IndexStatuses}

IndexBackends == UNION {[1..n -> IndexJobs] : n \in 0..MaxJobs}

\* one workload as workload.list yields it
Listed(js, w) == [id |-> w, desc |-> js[w].desc, st |-> js[w].st]

\* what the loop of _build_workload_cache can receive: the listing in
\* either order, whole, or cut short by the exception the method swallows
Listings(js) ==
    {[workloads |-> [k \in 1..n |-> Listed(js, Listing(js, 1, b)[k])],
      raised |-> n < Len(Listing(js, 1, b))] :
        b \in BOOLEAN, n \in 0..Len(Listing(js, 1, TRUE))}

InitIndex ==
    /\ orch = "bipeline"
    /\ dry_run \in BOOLEAN
    /\ workspace = TRUE
    /\ state_dir = FALSE
    /\ written = <<>>
    /\ commands \in {<<"c1">>, <<"c1", "c2">>}
    /\ jobs \in IndexBackends
    /\ fin \in Listings(jobs)
    /\ pc = "idle"
    /\ run = 0
    /\ i = 0
    /\ experiment_lookup = EmptyLookup
    /\ workload_cache = EmptyLookup
    /\ cur = 0
    /\ polls = 0
    /\ last_status = "None"
    /\ listed = FALSE
    /\ results = <<>>
    /\ log = <<>>
    /\ hist = <<>>
    /\ fout = NoOutput

\* Bipeline.run up to the task loop, on the listing fin holds
BuildIndex ==
    /\ orch = "bipeline"
    /\ pc = "idle"
    /\ run' = run + 1
    /\ workload_cache' =
           _build_workload_cache(jobs,
                                 [k \in 1..Len(fin.workloads) |-> fin.workloads[k].id],
                                 EmptyLookup)
    /\ listed' = ~fin.raised
    /\ written' = <<>>
    /\ pc' = "task"
    /\ i' = 1
    /\ results' = <<>>
    /\ log' = <<>>
    /\ UNCHANGED <<orch, dry_run, workspace, state_dir, commands, jobs, experiment_lookup,
                   cur, polls, last_status, hist, fin, fout>>

\* the backend advances a job while a wait loop sleeps
IndexBackendStep == pc = "poll" /\ BackendStep

NextIndex ==
    \/ BuildIndex
    \/ Bipeline_process_task
    \/ Bipeline_tag_launched
    \/ _wait_for_experiment
    \/ IndexBackendStep

SpecIndex == InitIndex /\ [][NextIndex]_vars

----------------------------------------------------------------------------
(* The wait loops under fair scheduling: one wait on one job.  The process
   that is inside a wait loop sleeps poll_interval seconds and polls again,
   so an iteration that can be taken is taken eventually; the backend is
   under no such obligation, and nothing obliges a query to raise. *)

\* The state entering the wait: the job was just submitted, or it was found
\* in the index; the backend may have advanced it before the first poll.
InitLive ==
    /\ orch \in {"runner", "bipeline"}
    /\ dry_run = FALSE
    /\ workspace = TRUE
    /\ state_dir \in BOOLEAN
    /\ written = <<>>
    /\ commands \in {<<"c1">>, <<"c2">>}
    /\ jobs \in {<<Job(IF orch = "runner" THEN Name(task_hash(commands[1]), 0) ELSE NoName,
                       d, st, "orch", task_hash(commands[1]))>> :
                   st \in RawStatus,
                   d \in IF orch = "runner" THEN {PlainDesc}
                         ELSE {PlainDesc, new_desc(PlainDesc, task_hash(commands[1]))}}
    /\ pc = "poll"
    /\ run = 1
    /\ i = 1
    /\ experiment_lookup = IF orch = "runner"
                           THEN (Name(task_hash(commands[1]), 0) :> 1) @@ EmptyLookup
                           ELSE EmptyLookup
    /\ workload_cache = EmptyLookup
    /\ cur = 1
    /\ polls = 0
    /\ last_status = "None"
    /\ listed = TRUE
    /\ results = <<>>
    /\ log = <<Resolved(task_hash(commands[1]), 0, "none", "none", "launch", 1)>>
    /\ hist = <<>>
    /\ fin = NoWaitInput
    /\ fout = NoWaitOutput

\* the backend advances the job while the loop sleeps
LiveBackendStep == pc = "poll" /\ BackendStep

NextLive ==
    \/ LiveBackendStep
    \/ wait_for_completion
    \/ _wait_for_experiment

\* an iteration of either loop whose status query returned
PollReturns == (wait_for_completion \/ _wait_for_experiment) /\ pc' # "crashed"

SpecLive == InitLive /\ [][NextLive]_vars /\ WF_vars(PollReturns)

----------------------------------------------------------------------------
(* Properties *)

SeqSet(s) == {s[k] : k \in 1..Len(s)}
Last(s) == s[Len(s)]

\* How the tasks of every run that returned, and of the current run, were resolved
Entries == SeqSet(log) \cup UNION {SeqSet(hist[r].log) : r \in 1..Len(hist)}

Terminal == {"completed", "failed", "canceled"}

\* C1 (hook-on-running): a task whose index entry was found running is
\* attached to that very job: nothing is submitted or executed for it, the
\* process polls that job, and what the wait returns is a terminal status
\* of that job.
C1_HookOnRunning ==
    /\ \A e \in Entries :
          e.found # 0 /\ e.observed = "running" =>
              /\ e.decision = "hook"
              /\ e.launched = 0
              /\ e.final # "none" => e.final \in Terminal /\ jobs[e.found].st \in RawTerminal
    /\ pc \in {"tag", "poll"} /\ Last(log).observed = "running" =>
          pc = "poll" /\ cur = Last(log).found

C1_Witness ==
    \E e \in SeqSet(log) :
        e.observed = "running" /\ e.decision = "hook" /\ e.final \in Terminal

\* C2 (hook-on-pending), as claimed: a task whose index entry was found
\* pending is attached to that job like a running one.
C2_HookOnPending ==
    \A e \in Entries : e.found # 0 /\ e.observed = "pending" => e.decision = "hook"

\* C3 (no duplicate in-flight work), as claimed: no two jobs the
\* orchestrator submitted for one identity are non-terminal together, and a
\* job is submitted only when the known job of the identity failed or was
\* canceled, or none is known.
C3_NoDuplicateInFlight ==
    /\ \A j, k \in 1..Len(jobs) :
          (j < k /\ jobs[j].by = "orch" /\ jobs[k].by = "orch" /\ jobs[j].forh = jobs[k].forh)
              => jobs[j].st \in RawTerminal \/ jobs[k].st \in RawTerminal
    /\ \A e \in Entries :
          (e.decision = "launch" /\ e.found # 0 /\ jobs[e.found].by = "orch")
              => e.observed \in {"failed", "canceled"}

\* the step is _process_task resolving the current task
C4_Resolves == pc = "task" /\ Len(log') = Len(log) + 1

\* C4 (skip-on-complete): the step that resolves a task whose index entry
\* is completed appends the result completed and nothing else happens: the
\* backend is unchanged (no submission, no description write), the process
\* enters neither the tagging nor the wait loop, and the index is unchanged.
C4_SkipOnComplete ==
    [][(C4_Resolves /\ (Last(log').observed = "completed" \/ Last(log').cached = "completed"))
        => /\ Last(log').decision = "skip"
           /\ Last(log').launched = 0
           /\ jobs' = jobs
           /\ pc' \in {"task", "done"}
           /\ results' = Append(results, Result(commands[i], "completed"))
           /\ pc' = "task" => /\ experiment_lookup' = experiment_lookup
                              /\ workload_cache' = workload_cache
                              /\ cur' = 0 /\ polls' = 0]_vars

C4_Witness ==
    /\ pc = "task"
    /\ log # <<>>
    /\ Last(log).decision = "skip"
    /\ Last(results).status = "completed"

\* base, base-1 .. base-k are in the index and base-(k+1) is not
Contiguous(lookup, h, k) ==
    /\ \A n \in 0..k : Name(h, n) \in DOMAIN lookup
    /\ Name(h, k + 1) \notin DOMAIN lookup

\* C5 (retry-suffix ordering): when base, base-1 .. base-k are in the index
\* and base-(k+1) is not, the latest attempt is base-k and the name of the
\* new launch is base-(k+1), one past it.
C5_RetrySuffixOrdering ==
    pc = "named" =>
        \A k \in 0..MaxSuffix :
            Contiguous(fin.lookup, fin.h, k) =>
                /\ fout.match = Name(fin.h, k)
                /\ fout.next = Name(fin.h, k + 1)
                /\ fout.next.n = fout.match.n + 1

C5_Witness ==
    /\ pc = "named"
    /\ Contiguous(fin.lookup, fin.h, 2)
    /\ fout.next = Name(fin.h, 3)

\* C6 (base unmatched means new), as claimed: a task whose un-suffixed name
\* names no job is resolved against no index entry.
C6_BaseUnmatchedIsNew ==
    orch = "runner" =>
        \A e \in SeqSet(log) :
            (\A j \in 1..Len(jobs) : jobs[j].name # Name(e.h, 0)) => e.found = 0

\* the tasks of the list have pairwise distinct identities
DistinctIdentities ==
    \A j, k \in 1..Len(commands) :
        j # k => task_hash(commands[j]) # task_hash(commands[k])

NoPriorState == \A j \in 1..Len(jobs) : jobs[j].by = "orch"

AllCompleted(res) ==
    /\ Len(res) = Len(commands)
    /\ \A k \in 1..Len(res) : res[k].status = "completed"

\* the first run returned, every task of it completed
C7_FirstRunCompleted ==
    /\ NoPriorState
    /\ DistinctIdentities
    /\ Len(hist) >= 1
    /\ hist[1].outcome = "done"
    /\ AllCompleted(hist[1].results)

C7_FirstRunLaunchedAll ==
    /\ \A k \in 1..Len(commands) : hist[1].log[k].decision = "launch"
    /\ \A j, k \in 1..Len(commands) :
          j # k => hist[1].log[j].launched # hist[1].log[k].launched

C7_SecondRunReturned == Len(hist) = 2 /\ hist[2].outcome = "done"

C7_SecondRunSkipsAll ==
    /\ AllCompleted(hist[2].results)
    /\ \A k \in 1..Len(commands) :
          hist[2].log[k].decision = "skip" /\ hist[2].log[k].launched = 0

\* every job of the first run carries the tag of its identity, a workspace
\* is configured and the listing of the second run raised nothing
C7_TaggedAndListed ==
    /\ workspace
    /\ hist[2].listed
    /\ \A k \in 1..Len(commands) :
          _parse_hash_tag(jobs[hist[1].log[k].launched].desc) = hist[1].log[k].h

C8_OnlyPriorFailed ==
    /\ orch = "runner"
    /\ commands = <<"c1">>
    /\ \A j \in 1..Len(jobs) : jobs[j].by = "pre" <=> j = 1
    /\ Len(hist) >= 1
    /\ hist[1].outcome = "done"
    /\ hist[1].log[1].found = 1
    /\ jobs[1].name = Name(task_hash("c1"), 0)
    /\ hist[1].log[1].observed = "failed"
    /\ ~dry_run

C8_RetryThenSkip ==
    C8_OnlyPriorFailed =>
        /\ hist[1].log[1].decision = "launch"
        /\ jobs[hist[1].log[1].launched].name = Name(task_hash("c1"), 1)
        /\ (hist[1].results[1].status = "completed" /\ Len(hist) = 2 /\ hist[2].outcome = "done")
              => /\ hist[2].results[1].status = "completed"
                 /\ hist[2].log[1].decision = "skip"
                 /\ hist[2].log[1].found = hist[1].log[1].launched
                 /\ hist[2].log[1].launched = 0

C8_Witness ==
    /\ C8_OnlyPriorFailed
    /\ Len(hist) = 2
    /\ hist[2].outcome = "done"
    /\ hist[2].log[1].decision = "skip"
    /\ jobs[hist[2].log[1].found].name = Name(task_hash("c1"), 1)

\* C9 (resume after interruption), as claimed: when the previous run was
\* killed while it tagged or polled a job for a task, and that job is not
\* terminal, the task of that identity is resolved by hooking that job.
C9_ResumeHooks ==
    (/\ pc \in {"task", "tag", "poll"}
     /\ ~dry_run
     /\ hist # <<>>
     /\ Last(hist).outcome = "idle"
     /\ Last(hist).job # 0)
        => \A e \in SeqSet(log) :
              (e.h = Last(hist).h /\ jobs[Last(hist).job].st \notin RawTerminal)
                  => e.decision = "hook" /\ e.found = Last(hist).job

\* the job the wait loop of a task polled
Polled(e) == IF e.decision = "hook" THEN e.found ELSE e.launched

\* C10 (the wait returns terminal statuses only): whatever a wait loop
\* returned is completed, failed or canceled, and it is the status of the
\* polled job, which is terminal; no result carries unknown, pending or
\* running.
C10_WaitReturnsTerminal ==
    /\ \A e \in Entries :
          e.final # "none" =>
              /\ e.final \in Terminal
              /\ jobs[Polled(e)].st \in RawTerminal
              /\ WORKLOAD_STATUS_DISPLAY(jobs[Polled(e)].st) = e.final
    /\ \A r \in SeqSet(results) : r.status \notin {"unknown", "pending", "running"}

C10_Witness ==
    /\ pc = "done"
    /\ \E e \in SeqSet(log) : e.decision = "launch" /\ e.final = "canceled"

----------------------------------------------------------------------------
(* The wait loops: reports, re-tagging, tagging failures (SpecWait) *)

RECURSIVE Dedup(_)
\* a sequence with its consecutive duplicates removed
Dedup(q) ==
    IF Len(q) <= 1 THEN q
    ELSE IF q[Len(q)] = q[Len(q) - 1]
         THEN Dedup(SubSeq(q, 1, Len(q) - 1))
         ELSE Append(Dedup(SubSeq(q, 1, Len(q) - 1)), q[Len(q)])

WaitReturned == fout.returned # "None"

\* the non-terminal polls of the wait so far
NonTerminalPolls == Len(fin.polled) - (IF WaitReturned THEN 1 ELSE 0)

\* C11 (status reports): during one wait, of either orchestrator, the
\* statuses reported to the operator are the statuses polled with the
\* consecutive duplicates removed: the first poll reports, every change is
\* reported once, a repeated status is not reported again.
C11_ReportsStatusChanges == fout.reported = Dedup(fin.polled)

C11_Witness ==
    /\ WaitReturned
    /\ Len(fout.reported) >= 3
    /\ Len(fin.polled) >= Len(fout.reported) + 2

\* C12 (re-tag schedule): in a wait of Bipeline with k non-terminal polls
\* so far, the tagging calls made on non-terminal polls are those after the
\* polls 4, 8, .. up to k, one each and in that order; the call on the
\* terminal observation is made exactly when the wait returns, and is the
\* last: a wait that returned made k div 4 + 1 calls.
C12_RetagSchedule ==
    orch = "bipeline" =>
        LET k == NonTerminalPolls
            n == k \div retag_every
        IN /\ Len(fout.tagged) = n + (IF WaitReturned THEN 1 ELSE 0)
           /\ \A c \in 1..n : fout.tagged[c] = TagCall(c * retag_every, FALSE)
           /\ WaitReturned => fout.tagged[n + 1] = TagCall(k, TRUE)

C12_Witness ==
    /\ orch = "bipeline"
    /\ WaitReturned
    /\ NonTerminalPolls = 2 * retag_every
    /\ Len(fout.tagged) = 3
    /\ Len(fout.reported) < Len(fin.polled) - 2

\* C13 (tagging failures are swallowed): no tagging call that raised ends
\* the wait of Bipeline, and the status the wait returned and the result
\* of the task are the terminal status polled last, whatever the tagging
\* calls did.
C13_TagFailureSwallowed ==
    orch = "bipeline" =>
        /\ fout.aborted # "tag"
        /\ (fin.tag_failed /\ pc = "poll") => fout.aborted = "none"
        /\ WaitReturned =>
              /\ fout.returned = fin.polled[Len(fin.polled)]
              /\ BipelineTerminal(fout.returned)
              /\ results = <<Result(commands[1], fout.returned)>>

C13_Witness ==
    /\ orch = "bipeline"
    /\ WaitReturned
    /\ fin.tag_failed
    /\ NonTerminalPolls >= retag_every
    /\ results = <<Result("c1", "completed")>>

----------------------------------------------------------------------------
(* Tags in descriptions (SpecTag) *)

\* the description d begins with the tag of identity x
StartsWithTag(d, x) ==
    /\ x # <<>>
    /\ Len(d) >= Len(x) + 2
    /\ d[1] = "T"
    /\ SubSeq(d, 2, Len(x) + 1) = x
    /\ d[Len(x) + 2] = ")"

\* the identities a description can name
HexSeqs == UNION {[1..n -> Hex] : n \in 1..MaxDescLen}

\* the user text of d: d with a leading tag prefix, if any, removed
UserText(d) ==
    IF HASH_TAG_RE(d, 1) # 0 THEN SubSeq(d, HASH_TAG_RE(d, 1), Len(d)) ELSE d

TaggedOnce == Len(fout.ok) >= 1 /\ fout.ok[1]
TaggedTwice == Len(fout.ok) = 2 /\ fout.ok[1] /\ fout.ok[2]

\* C14 (idempotent re-tag), as claimed: when the description already
\* begins with the tag of the current identity, whatever follows the tag,
\* _tag_experiment issues no update and the description is unchanged.
C14_IdempotentRetag ==
    (TaggedOnce /\ StartsWithTag(fin.desc, task_hash(commands[1]))) =>
        /\ ~fout.updated[1]
        /\ fout.desc[1] = fin.desc

\* C15 (tagging twice is tagging once), as claimed: for every description
\* and identity, the second of two tagging calls in a row issues no update
\* and leaves the description the first call left.
C15_TagTwiceIsTagOnce ==
    TaggedTwice =>
        /\ ~fout.updated[2]
        /\ fout.desc[2] = fout.desc[1]

\* C16 (anchored recognition): the index holds an identity x for the job
\* exactly when the description begins with the tag of x; a marker that
\* occurs only further on in the description indexes nothing.
C16_AnchoredRecognition ==
    pc = "tagging" =>
        \A x \in HexSeqs :
            x \in DOMAIN workload_cache <=> StartsWithTag(fin.desc, x)

C16_Witness ==
    /\ pc = "tagging"
    /\ fout.ok = <<>>
    /\ \E p \in 2..Len(fin.desc) : HASH_TAG_RE(fin.desc, p) # 0
    /\ HASH_TAG_RE(fin.desc, 1) = 0
    /\ DOMAIN workload_cache = {}

\* C17 (tagging preserves user text), as claimed: after a tagging call the
\* description is the tag of the identity followed by the text the
\* description had, only a leading tag prefix removed; a marker inside the
\* user text stays.
C17_TagPreservesUserText ==
    TaggedOnce =>
        fout.desc[1] =
            rstrip(<<"T">> \o task_hash(commands[1]) \o <<")", " ">> \o UserText(fin.desc))

----------------------------------------------------------------------------
(* Listing failures, the in-memory index, halting (Spec) *)

\* the step is run() starting: the index is built, then the task loop begins
StartsRun == pc \in {"idle", "done", "crashed"} /\ run' = run + 1

\* C18 (listing failures), as claimed: the step that starts a run always
\* reaches the task loop; when the listing of the backend raised, wholly or
\* part-way, the run goes on with an empty index.
C18_ListingFailureTolerated ==
    [][StartsRun =>
          /\ pc' = "task"
          /\ ~listed' => /\ experiment_lookup' = EmptyLookup
                         /\ workload_cache' = EmptyLookup]_vars

\* the logs of the current run and of the runs that returned
Logs == {log} \cup {hist[r].log : r \in 1..Len(hist)}

\* C19 (in-memory index update), as claimed, on a backend that held no
\* job before the first run: in one run, a task whose identity an earlier
\* task of the run launched a job for resolves against that job (the
\* latest one launched for the identity), not as a new task.
C19_IndexUpdatedAfterLaunch ==
    \A L \in Logs : \A j, k \in 1..Len(L) :
        (/\ NoPriorState
         /\ j < k
         /\ L[j].h = L[k].h
         /\ L[j].launched # 0
         /\ \A n \in (j + 1)..(k - 1) : L[n].h = L[k].h => L[n].launched = 0)
        => L[k].found = L[j].launched

\* the results lists of the current run and of the runs that returned
ResultLists == {results} \cup {hist[r].results : r \in 1..Len(hist)}

\* C20 (halt on failure): in Bipeline the results are those of a prefix
\* of the command list, in order; a failed or canceled result is the last
\* one; and once the current run has such a result it has returned: no
\* later task is resolved, executed, tagged or polled.
C20_HaltOnFailure ==
    orch = "bipeline" =>
        /\ \A res \in ResultLists :
              /\ Len(res) <= Len(commands)
              /\ \A k \in 1..Len(res) :
                    /\ res[k].command = commands[k]
                    /\ res[k].status \in {"failed", "canceled"} => k = Len(res)
        /\ (results # <<>> /\ Last(results).status \in {"failed", "canceled"}) =>
              /\ pc = "done"
              /\ Len(log) = Len(results)
              /\ cur = 0

C20_Witness ==
    /\ orch = "bipeline"
    /\ commands = <<"c1", "c2">>
    /\ pc = "done"
    /\ Len(results) = 1
    /\ results[1].status = "canceled"
    /\ log[1].launched # 0

----------------------------------------------------------------------------
(* Results, artifacts, dry run, configuration, errors (Spec) *)

\* C21 (continue policy of the Runner): when run() of the Runner has
\* finished, results holds one entry per command, in command order, each
\* with its command and the hash of it, whatever the statuses of the
\* earlier tasks were.
C21_RunnerContinues ==
    (orch = "runner" /\ pc = "done") =>
        /\ Len(results) = Len(commands)
        /\ \A k \in 1..Len(commands) :
              /\ results[k].command = commands[k]
              /\ results[k].hash = task_hash(commands[k])

C21_Witness ==
    /\ orch = "runner"
    /\ pc = "done"
    /\ Len(commands) = 2
    /\ results[1].status \in {"failed", "canceled"}
    /\ Len(results) = 2

\* C22 (result statuses): every status recorded for a task, by either
\* orchestrator, is completed, failed, canceled or dry_run, and dry_run
\* is recorded only when the dry_run flag is set.
C22_ResultStatuses ==
    \A res \in ResultLists : \A k \in 1..Len(res) :
        /\ res[k].status \in {"completed", "failed", "canceled", "dry_run"}
        /\ res[k].status = "dry_run" => dry_run

C22_Witness ==
    /\ pc = "done"
    /\ Len(results) = 2
    /\ results[1].status = "completed"
    /\ results[2].status = "dry_run"
    /\ log[1].decision = "hook"

\* C23 (summary artifact): in Bipeline nothing is written while the task
\* loop runs; when run() has returned with a state directory configured,
\* exactly one artifact was written, the run summary, and its task list is
\* the results of the run, also when the loop halted early; with no state
\* directory nothing is written.
C23_SummaryArtifact ==
    orch = "bipeline" =>
        /\ pc \in {"task", "tag", "poll"} => written = <<>>
        /\ (pc = "done" /\ state_dir) =>
              /\ Len(written) = 1
              /\ written[1].file = "run"
              /\ written[1].tasks = results
        /\ ~state_dir => written = <<>>

C23_Witness ==
    /\ orch = "bipeline"
    /\ state_dir
    /\ pc = "done"
    /\ Len(commands) = 2
    /\ Len(results) = 1
    /\ results[1].status = "failed"
    /\ written = <<Artifact("run", results, TRUE)>>

\* C24 (dry run), as claimed: with dry_run set nothing is tagged or
\* polled, no job is submitted and no description on the backend changes.
C24_DryRunDoesNothing ==
    dry_run =>
        /\ pc \notin {"tag", "poll"}
        /\ \A j \in 1..Len(jobs) :
              /\ jobs[j].by = "pre"
              /\ jobs[j].desc \in PreDescs \cup {PlainDesc}

\* C25 (no workspace): in Bipeline without a workspace the backend is
\* never listed, the index is empty throughout, and every task is executed
\* or reported as dry_run: none is resolved against a job.
C25_NoWorkspaceNoDedup ==
    (orch = "bipeline" /\ ~workspace) =>
        /\ workload_cache = EmptyLookup
        /\ ~listed
        /\ \A r \in 1..Len(hist) : ~hist[r].listed
        /\ \A e \in Entries :
              /\ e.found = 0
              /\ e.decision \in {"launch", "dry_run", "error"}

C25_Witness ==
    /\ orch = "bipeline"
    /\ ~workspace
    /\ Len(jobs) = 2
    /\ jobs[1].by = "pre"
    /\ jobs[1].st = "succeeded"
    /\ _parse_hash_tag(jobs[1].desc) = task_hash(commands[1])
    /\ Len(log) >= 1
    /\ log[1].decision = "launch"

\* the step is Bipeline._process_task whose command failed
C26_CommandFailed ==
    /\ Len(log') = Len(log) + 1
    /\ log'[Len(log')].decision = "error"

\* C26 (local execution error): no step of Bipeline._process_task leaves
\* run() by an exception; the step whose command failed records failed for
\* the task, tags and polls nothing, changes nothing on the backend, and
\* run() returns with its results and, with a state directory, its summary.
C26_LocalExecutionError ==
    [][(orch = "bipeline" /\ pc = "task") =>
          /\ pc' # "crashed"
          /\ C26_CommandFailed =>
                /\ jobs' = jobs
                /\ pc' = "done"
                /\ Len(results') = Len(results) + 1
                /\ results'[Len(results')] = Result(commands[i], "failed")
                /\ state_dir => /\ Len(written') = 1
                                /\ written'[1].tasks = results']_vars

C26_Witness ==
    /\ orch = "bipeline"
    /\ pc = "done"
    /\ state_dir
    /\ Len(commands) = 2
    /\ Len(log) = 2
    /\ log[2].decision = "error"
    /\ results[2].status = "failed"
    /\ Len(written) = 1

\* C27 (remote-query errors), as claimed: no poll of a wait loop ends
\* run() by an exception.
C27_QueryErrorsNotFatal == [][pc = "poll" => pc' # "crashed"]_vars

\* C28 (tag before poll), as claimed: in Bipeline every entry into the
\* polling loop comes from the step that tags the job, for a launched job
\* and for a hooked one.
C28_TagBeforePoll ==
    [][(orch = "bipeline" /\ pc # "poll" /\ pc' = "poll") => pc = "tag"]_vars

----------------------------------------------------------------------------
(* Task identity (SpecHash) *)

SameCommandAndSalt ==
    /\ fin.t1.cmd.command = fin.t2.cmd.command
    /\ fin.t1.self.run_hash = fin.t2.self.run_hash

\* C29 (identity depends on command and run_hash only): two tasks with the
\* same command text and the same run_hash get the same identity, whatever
\* their lib, raw flag, position, experiment prefix and the process (and
\* orchestrator) that computes it.
C29_IdentityDependsOnCommandAndSalt ==
    (pc = "hashed" /\ SameCommandAndSalt) => fout.h1 = fout.h2

C29_Witness ==
    /\ pc = "hashed"
    /\ SameCommandAndSalt
    /\ fin.t1.cmd.command # <<>>
    /\ fin.t1.orch = "runner"
    /\ fin.t2.orch = "bipeline"
    /\ fin.t2.cmd.lib # fin.t1.cmd.lib
    /\ fin.t2.cmd.raw
    /\ fin.t2.index # fin.t1.index
    /\ fout.h1 = fout.h2
    /\ fout.h1 # NoHash

\* C30 (sensitivity), as claimed: two tasks that differ in command text
\* or in run_hash get different identities, the separator "|" occurring
\* in the command or the run_hash included.
C30_IdentitySensitive ==
    (pc = "hashed" /\ ~SameCommandAndSalt) => fout.h1 # fout.h2

----------------------------------------------------------------------------
(* The tag-scan index keeps the first match (SpecIndex) *)

\* positions of the listing whose description begins with the tag of h
ListedFor(h) == {k \in 1..Len(fin.workloads) : StartsWithTag(fin.workloads[k].desc, h)}

\* the first workload of the listing tagged for h
FirstListed(h) == fin.workloads[CHOOSE k \in ListedFor(h) : \A m \in ListedFor(h) : k <= m]

\* the task of identity h was resolved against the first workload listed for h
ResolvedAgainstFirst(e) ==
    IF ListedFor(e.h) = {} THEN e.found = 0
    ELSE /\ e.found = FirstListed(e.h).id
         /\ e.cached = WORKLOAD_STATUS_DISPLAY(FirstListed(e.h).st)
         /\ FirstListed(e.h).st = "failed" => e.decision # "skip"

\* C31 (the index keeps the first match): after _build_workload_cache the
\* entry of every identity h is the first workload, in listing order, whose
\* description begins with the tag of h, whatever is listed after it, and
\* every task is resolved against that workload: when it is failed the
\* task is not skipped, even if a completed one for h is listed later.
C31_FirstMatchKept ==
    /\ pc = "task" =>
          \A h \in Hashes :
              IF ListedFor(h) = {} THEN h \notin DOMAIN workload_cache
              ELSE /\ h \in DOMAIN workload_cache
                   /\ workload_cache[h] = [id |-> FirstListed(h).id,
                                           status |-> FirstListed(h).st]
    /\ \A e \in Entries : ResolvedAgainstFirst(e)

\* a failed workload listed before a completed one of the same identity:
\* the task was resolved against the failed one and was not skipped
C31_Witness ==
    /\ pc = "done"
    /\ Len(fin.workloads) = 2
    /\ fin.workloads[1].st = "failed"
    /\ fin.workloads[2].st = "succeeded"
    /\ StartsWithTag(fin.workloads[1].desc, task_hash("c1"))
    /\ StartsWithTag(fin.workloads[2].desc, task_hash("c1"))
    /\ log[1].h = task_hash("c1")
    /\ log[1].found = fin.workloads[1].id
    /\ log[1].decision \in {"dry_run", "error"}
    /\ results[1].status # "completed"

----------------------------------------------------------------------------
(* Polling liveness (SpecLive) *)

\* the job the loop polls has reached a terminal status
JobTerminal == jobs[1].st \in RawTerminal

\* an exception of a status query left the loop
QueryRaised == pc = "crashed"

\* the loop returned, and run() with it
LoopReturned == pc = "done"

\* what a status query on the job returns in this state
LiveStatus ==
    IF orch = "runner" THEN get_workload_status(jobs[1]) ELSE get_experiment_status(jobs[1])

\* C32 (polling liveness): when the job reaches a terminal status, which
\* it then keeps, and no status query raises, the wait loop eventually
\* returns; what it returns is the terminal status its last poll observed;
\* and while the job is never terminal the loop never returns.
C32_PollingLiveness ==
    /\ (<>[]JobTerminal /\ []~QueryRaised) => <>LoopReturned
    /\ [](LoopReturned =>
            /\ results[1].status = LiveStatus
            /\ results[1].status \in Terminal
            /\ log[1].final = results[1].status)
    /\ ([]~JobTerminal) => ([]~LoopReturned)

\* the loop polled a job that was not terminal, went on, and returned the
\* status the job ended in
C32_Witness ==
    /\ LoopReturned
    /\ JobTerminal
    /\ results[1].status = "failed"
    /\ orch = "bipeline"
    /\ jobs[1].desc = new_desc(PlainDesc, task_hash(commands[1]))
    /\ Len(hist) = 1

----------------------------------------------------------------------------
(* Fresh launch names (SpecNames) *)

\* the index after `experiment_lookup[exp_name] = workload` of a launch
AfterLaunch(lookup, exp_name) == (exp_name :> 0) @@ lookup

\* C33 (fresh launch name): whatever the index holds, gaps in the suffix
\* sequence and a missing un-suffixed name included, next_experiment_name
\* returns a name of the identity that is not a key of the index, so the
\* update after the launch leaves every entry the index had as it was.
C33_FreshLaunchName ==
    pc = "named" =>
        /\ fout.next.h = fin.h
        /\ fout.next \notin DOMAIN fin.lookup
        /\ \A nm \in DOMAIN fin.lookup :
              AfterLaunch(fin.lookup, fout.next)[nm] = fin.lookup[nm]

\* an index with a gap: base and base-2 are keys, base-1 is not and is returned
C33_Witness ==
    /\ pc = "named"
    /\ Name(fin.h, 0) \in DOMAIN fin.lookup
    /\ Name(fin.h, 1) \notin DOMAIN fin.lookup
    /\ Name(fin.h, 2) \in DOMAIN fin.lookup
    /\ fout.next = Name(fin.h, 1)

----------------------------------------------------------------------------
(* One submission per task and run (Spec) *)

\* the step submits a job to the backend
Submits == Len(jobs') > Len(jobs)

\* the process is inside _process_task past the resolution of its task:
\* tagging or polling the job of task i
Waiting == pc \in {"tag", "poll"}

\* C34 (at most one submission per task and run): a step submits at most
\* one job, and only as the step of _process_task that resolves task i and
\* enters the wait on that job; while the job is tagged and polled nothing
\* is submitted; and when the wait is over, whatever status it returned,
\* the run goes on to task i + 1 or ends, so within one run no task is
\* taken up a second time.
C34_OneSubmissionPerTask ==
    [][/\ Len(jobs') <= Len(jobs) + 1
       /\ Submits => /\ pc = "task"
                      /\ Waiting'
                      /\ i' = i
                      /\ cur' = Len(jobs')
                      /\ Len(log') = i
                      /\ log'[i].launched = cur'
       /\ (pc' = "task" /\ run' = run) => i' \in {i, i + 1}
       /\ (pc = "task" /\ pc' = "task" /\ i' = i) => (log' = log /\ results' = results)
       /\ (Waiting /\ pc' = "task") => (run' = run /\ i' = i + 1)
      ]_vars

\* the Runner launched the job of its first task, which failed, went on to
\* the second task and returned: two tasks, two jobs
C34_Witness ==
    /\ orch = "runner"
    /\ pc = "done"
    /\ commands = <<"c1", "c2">>
    /\ Len(log) = 2
    /\ log[1].decision = "launch" /\ log[1].final = "failed"
    /\ log[2].decision = "launch" /\ log[2].final = "completed"
    /\ Len(jobs) = 2
    /\ jobs[1].forh = task_hash("c1")
    /\ jobs[2].forh = task_hash("c2")

----------------------------------------------------------------------------
(* Tag round trip (SpecRoundTrip) *)

\* the k-th tagging call, or one before it, went through
TaggedBy(k) == \E j \in 1..k : fout.ok[j]

====
